---- MODULE Spec2Model ----
(***************************************************************************)
(* Model of the useWebSocket hook (src/useWebSocket.ts): one run of the    *)
(* effect (one "supervisor instance"), the browser WebSocket objects it    *)
(* creates, the setTimeout retry timers it schedules, and the window       *)
(* online/offline events.  All handlers run on the single JavaScript event *)
(* loop, so every handler is one atomic action.                            *)
(*                                                                         *)
(* Sockets are numbered 1, 2, ... in creation order; 0 stands for          *)
(* null / undefined.  Wall-clock time is abstracted: a pending timer may   *)
(* mature at any moment.  The browser dispatches an online (offline) event *)
(* only when navigator.onLine turns true (false).  The component stays     *)
(* mounted across the cleanup (as on a roomID / log change), so setWs and  *)
(* setIsConnected still take effect afterwards.  Only the hook's own sends *)
(* are modelled, not the payloads a consumer sends through ws.             *)
(***************************************************************************)
EXTENDS Integers, Sequences, FiniteSets, TLC

\* ---------------------------------------------------------------- bounds
MaxSockets == 5     \* sockets one effect run may construct in the model
MaxOnline == 1      \* online events the browser dispatches in the model

\* ------------------------------------------------------ program constants
initialDelay == 1000
maxDelay == 30000
JitterRange == 500

\* Math.random() * 500 lies in [0, 500); the model draws the two extremes.
Jitters == {0, JitterRange - 1}

Entered == "entered"      \* JSON.stringify({ type: "entered" })

VARIABLES
    ws,               \* React state: published socket, 0 = null
    isConnected,      \* React state
    isManuallyClosed, \* effect closure variable
    socket,           \* effect closure variable: last socket constructed, 0 = undefined
    retryDelay,       \* effect closure variable
    onLine,           \* navigator.onLine
    listeners,        \* window events this effect run has a handler registered for
    readyState,       \* readyState[s] of every socket constructed so far
    sent,             \* sent[s]: payloads transmitted on socket s, in order
    timers,           \* pending setTimeout callbacks, each named by the socket whose close scheduled it
    lastWait,         \* delay passed to the most recent setTimeout call, 0 before the first
    closedBy,         \* history: which code called close() on s while its close event is pending
    fresh,            \* history: no retry was scheduled since construction, the last open or the last online event
    onlineEvents,     \* history: online events dispatched so far
    afterOpen         \* history: an open was delivered and no retry was scheduled since it

vars == <<ws, isConnected, isManuallyClosed, socket, retryDelay, onLine, listeners,
          readyState, sent, timers, lastWait, closedBy, fresh, onlineEvents, afterOpen>>

Min(a, b) == IF a <= b THEN a ELSE b

Sockets == 1..Len(readyState)

Live(rs) == {s \in 1..Len(rs) : rs[s] \in {"CONNECTING", "OPEN"}}

\* WebSocket.close(): no effect on a socket that is CLOSING or CLOSED,
\* otherwise the socket becomes CLOSING and its close event follows later.
CloseMethod(rs, s) ==
    IF s = 0 THEN rs
    ELSE IF rs[s] \in {"CLOSING", "CLOSED"} THEN rs
    ELSE [rs EXCEPT ![s] = "CLOSING"]

\* history of who closed: the first caller of close() on a socket that was live
CloseMark(rs, cb, s, who) ==
    IF s = 0 THEN cb
    ELSE IF rs[s] \in {"CLOSING", "CLOSED"} THEN cb
    ELSE [cb EXCEPT ![s] = who]

\* WebSocket.send(): throws on a CONNECTING socket (nothing is transmitted),
\* transmits on an OPEN socket, silently drops on a CLOSING or CLOSED one.
SendMethod(rs, sn, s, payload) ==
    IF s # 0 /\ rs[s] = "OPEN" THEN [sn EXCEPT ![s] = Append(@, payload)] ELSE sn

\* connect(): returns at once when offline, otherwise constructs a socket
\* and stores it in the closure variable `socket`.
\* (variants: a connect() that does not consult navigator.onLine, and one that
\* never constructs a socket)
ConnectCreates_IgnoreOffline(online) == TRUE

ConnectCreates_Never(online) == FALSE

ConnectCreates(online) == online

ConnectReadyState(rs, online) ==
    IF ConnectCreates(online) THEN Append(rs, "CONNECTING") ELSE rs

ConnectSocket(rs, sk, online) ==
    IF ConnectCreates(online) THEN Len(rs) + 1 ELSE sk

ConnectExtend(f, dflt, online) ==
    IF ConnectCreates(online) THEN Append(f, dflt) ELSE f

\* (variant: doubling without the cap)
NextDelay_NoCap(d) == d * 2

\* Math.min(retryDelay * 2, maxDelay)
NextDelay(d) == Min(d * 2, maxDelay)

\* ------------------------------------------------------------------ Init
\* State after the effect body has run: both listeners are registered and
\* the initial connect() has been called.
Init ==
    /\ onLine \in BOOLEAN
    /\ ws = 0
    /\ isConnected = FALSE
    /\ isManuallyClosed = FALSE
    /\ retryDelay = initialDelay
    /\ listeners = {"online", "offline"}
    /\ readyState = ConnectReadyState(<<>>, onLine)
    /\ socket = ConnectSocket(<<>>, 0, onLine)
    /\ sent = ConnectExtend(<<>>, <<>>, onLine)
    /\ closedBy = ConnectExtend(<<>>, "none", onLine)
    /\ timers = {}
    /\ lastWait = 0
    /\ fresh = TRUE
    /\ onlineEvents = 0
    /\ afterOpen = FALSE

\* --------------------------------------------------------------- actions
\* socket.onopen: the open event of socket s is delivered.
OnOpen(s) ==
    /\ s \in Sockets
    /\ readyState[s] = "CONNECTING"
    /\ readyState' = [readyState EXCEPT ![s] = "OPEN"]
    /\ ws' = socket
    /\ isConnected' = TRUE
    /\ retryDelay' = initialDelay
    /\ sent' = SendMethod(readyState', sent, socket, Entered)
    /\ fresh' = TRUE
    /\ afterOpen' = TRUE
    /\ UNCHANGED <<isManuallyClosed, socket, onLine, listeners, timers, lastWait, closedBy,
                   onlineEvents>>

\* setTimeout in onclose: the close of socket s adds one pending callback.
\* (variants: an onclose that gives up after the second failed session, and
\* one whose scheduling runs a second time when the error handler re-enters it)
ScheduleRetry_GiveUp(tm, s) ==
    IF s >= 3 THEN tm ELSE tm \cup {[from |-> s, stale |-> FALSE]}

ScheduleRetry_Twice(tm, s) ==
    tm \cup {[from |-> s, stale |-> FALSE], [from |-> s, stale |-> TRUE]}

ScheduleRetry(tm, s) == tm \cup {[from |-> s, stale |-> FALSE]}

\* The connection of socket s ends: readyState becomes CLOSED, then the
\* error event (when the connection failed) and the close event are
\* delivered, in that order, in the same task.
OnClose(s, err, jitter) ==
    /\ s \in Sockets
    /\ readyState[s] # "CLOSED"
    /\ LET rs1 == [readyState EXCEPT ![s] = "CLOSED"]
           cb1 == [closedBy EXCEPT ![s] = "none"]
       IN  \* socket.onerror: socket.close()
           /\ readyState' = IF err THEN CloseMethod(rs1, socket) ELSE rs1
           /\ closedBy' = IF err THEN CloseMark(rs1, cb1, socket, "error") ELSE cb1
    \* socket.onclose
    /\ IF isManuallyClosed
       THEN UNCHANGED <<isConnected, timers, lastWait, fresh, afterOpen>>
       ELSE /\ isConnected' = FALSE
            /\ timers' = ScheduleRetry(timers, s)
            /\ lastWait' = retryDelay + jitter
            /\ fresh' = FALSE
            /\ afterOpen' = FALSE
    /\ UNCHANGED <<ws, isManuallyClosed, socket, retryDelay, onLine, listeners, sent, onlineEvents>>

\* The setTimeout callback scheduled by onclose runs.
TimerFire(t) ==
    /\ t \in timers
    /\ ConnectCreates(onLine) => Len(readyState) < MaxSockets
    /\ timers' = timers \ {t}
    /\ retryDelay' = NextDelay(retryDelay)
    /\ readyState' = ConnectReadyState(readyState, onLine)
    /\ socket' = ConnectSocket(readyState, socket, onLine)
    /\ sent' = ConnectExtend(sent, <<>>, onLine)
    /\ closedBy' = ConnectExtend(closedBy, "none", onLine)
    /\ UNCHANGED <<ws, isConnected, isManuallyClosed, onLine, listeners, lastWait, fresh,
                   afterOpen, onlineEvents>>

\* handleOnline: the online event is dispatched (navigator.onLine is true).
HandleOnline ==
    /\ Len(readyState) < MaxSockets
    /\ retryDelay' = initialDelay
    /\ readyState' = ConnectReadyState(readyState, TRUE)
    /\ socket' = ConnectSocket(readyState, socket, TRUE)
    /\ sent' = ConnectExtend(sent, <<>>, TRUE)
    /\ closedBy' = ConnectExtend(closedBy, "none", TRUE)
    /\ timers' = {[t EXCEPT !.stale = TRUE] : t \in timers}
    /\ fresh' = TRUE

\* The browser goes online: navigator.onLine becomes true and the online
\* event is dispatched to handleOnline when it is still registered.
GoOnline ==
    /\ ~onLine
    /\ onlineEvents < MaxOnline
    /\ onLine' = TRUE
    /\ onlineEvents' = onlineEvents + 1
    /\ IF "online" \in listeners
       THEN HandleOnline
       ELSE UNCHANGED <<retryDelay, readyState, socket, sent, closedBy, timers, fresh>>
    /\ UNCHANGED <<ws, isConnected, isManuallyClosed, listeners, lastWait, afterOpen>>

\* handleOffline: socket?.close()
HandleOffline ==
    /\ readyState' = CloseMethod(readyState, socket)
    /\ closedBy' = CloseMark(readyState, closedBy, socket, "offline")

\* The browser goes offline: navigator.onLine becomes false and the offline
\* event is dispatched to handleOffline when it is still registered.
GoOffline ==
    /\ onLine
    /\ onLine' = FALSE
    /\ IF "offline" \in listeners
       THEN HandleOffline
       ELSE UNCHANGED <<readyState, closedBy>>
    /\ UNCHANGED <<ws, isConnected, isManuallyClosed, socket, retryDelay, listeners,
                   sent, timers, lastWait, fresh, afterOpen, onlineEvents>>

\* The effect cleanup (teardown), as its effect on each piece of state:
\* socket?.close() and the two removeEventListener calls.
CleanupReadyState(rs, sk) == CloseMethod(rs, sk)

\* (variant: a cleanup that forgets to remove the offline handler)
CleanupListeners_KeepOffline(ls) == ls \ {"online"}

CleanupListeners(ls) == ls \ {"online", "offline"}

Cleanup ==
    /\ ~isManuallyClosed
    /\ isManuallyClosed' = TRUE
    /\ readyState' = CleanupReadyState(readyState, socket)
    /\ closedBy' = CloseMark(readyState, closedBy, socket, "cleanup")
    /\ listeners' = CleanupListeners(listeners)
    /\ UNCHANGED <<ws, isConnected, socket, retryDelay, onLine, sent, timers, lastWait,
                   fresh, afterOpen, onlineEvents>>

Next ==
    \/ \E s \in Sockets : OnOpen(s)
    \/ \E s \in Sockets, err \in BOOLEAN, jitter \in Jitters : OnClose(s, err, jitter)
    \/ \E t \in timers : TimerFire(t)
    \/ GoOnline
    \/ GoOffline
    \/ Cleanup

Spec == Init /\ [][Next]_vars

\* Pending timers mature: the event loop runs a due setTimeout callback.
TimerFires == \E t \in timers : TimerFire(t)

FairSpec == Spec /\ WF_vars(TimerFires)

\* the hook mounted while the browser is offline / online
InitOffline == Init /\ ~onLine

InitOnline == Init /\ onLine

SpecOffline == InitOffline /\ [][Next]_vars

SpecOnline == InitOnline /\ [][Next]_vars

TypeOK ==
    /\ ws \in 0..MaxSockets
    /\ isConnected \in BOOLEAN
    /\ socket \in 0..MaxSockets
    /\ Len(readyState) <= MaxSockets
    /\ Len(sent) = Len(readyState)
    /\ Len(closedBy) = Len(readyState)

\* ------------------------------------------------------------ properties
\* the retry bases of the documented sequence 1s -> 2s -> 4s -> 8s -> 16s -> 30s (cap)
BackoffSequence == <<1000, 2000, 4000, 8000, 16000, 30000>>

\* the base that follows base b in the documented sequence (30000 follows itself)
BaseAfter(b) ==
    LET i == CHOOSE k \in 1..Len(BackoffSequence) : BackoffSequence[k] = b
    IN  BackoffSequence[Min(i + 1, Len(BackoffSequence))]

\* the base of a scheduled wait base + jitter, jitter in [0, 500)
BaseOf(wait) == wait - (wait % 1000)

\* this step is the close of a session that scheduled a retry timer
SchedulesRetry == \E t \in timers' : \A u \in timers : u.from # t.from

\* this step constructs a socket (a connection attempt)
Attempts == Len(readyState') = Len(readyState) + 1

\* number of {"type": "entered"} announcements transmitted on socket s
Announcements(s) == Len(SelectSeq(sent[s], LAMBDA p : p = Entered))

\* C1: at most one socket of the instance is Connecting or Open at any time;
\* in particular no two sockets are both Open.
C1_AtMostOneLiveSession ==
    Cardinality(Live(readyState)) <= 1

\* C2: once the cleanup has run, no step constructs a new socket.
C2_NoAttemptAfterTeardown ==
    [][isManuallyClosed => ~Attempts]_vars

\* C3: an online event that arrives while a retry timer is pending starts an
\* attempt at once and cancels the timer: a timer that was pending at an online
\* event never fires and starts a further attempt.
C3_OnlineCancelsPendingTimer ==
    [][/\ (~onLine /\ onLine' /\ "online" \in listeners /\ timers # {}) => Attempts
       /\ \A t \in timers : (t.stale /\ t \notin timers') => ~Attempts]_vars

\* C4: the retry waits scheduled by consecutive closes while online, with no
\* open and no online event in between, have bases 1000, 2000, 4000, 8000,
\* 16000, 30000, 30000, ...: the first after construction, an open or an
\* online event has base 1000, each later one the base after the previous
\* wait's, and every wait lies in [base, base + 500).
C4_BackoffGrowth ==
    [][(SchedulesRetry /\ onLine) =>
          LET base == IF fresh THEN initialDelay ELSE BaseAfter(BaseOf(lastWait))
          IN  base <= lastWait' /\ lastWait' < base + JitterRange]_vars

\* C5: the first close that schedules a retry after a session opened schedules
\* a wait in [1000, 1500), whatever happened before and in between.
C5_ResetOnSuccess ==
    [][(SchedulesRetry /\ afterOpen) =>
          (initialDelay <= lastWait' /\ lastWait' < initialDelay + JitterRange)]_vars

\* C6: every session that is open has had exactly one announcement sent on
\* it, as its first payload.
C6_JoinAnnouncement ==
    \A s \in Sockets :
        readyState[s] = "OPEN" =>
            /\ sent[s] # <<>>
            /\ Head(sent[s]) = Entered
            /\ Announcements(s) = 1

\* C7: an offline event closes the live session, the close of a session that
\* the offline handler closed schedules no retry timer, and no attempt is made
\* while the browser stays offline.
C7_OfflinePausesRetries ==
    [][/\ (onLine /\ ~onLine' /\ "offline" \in listeners /\ socket \in Live(readyState))
            => readyState'[socket] = "CLOSING"
       /\ \A s \in Sockets :
            (closedBy[s] = "offline" /\ readyState'[s] = "CLOSED") => ~SchedulesRetry
       /\ (~onLine /\ ~onLine') => ~Attempts]_vars

\* C8: whenever the hook is not connected the published handle is null.
C8_HandleNullWhenDisconnected ==
    ~isConnected => ws = 0

\* C9: after the cleanup has run no step changes ws or isConnected or
\* transmits a payload on any socket.
C9_NoEffectAfterTeardown ==
    [][isManuallyClosed =>
          /\ UNCHANGED <<ws, isConnected>>
          /\ \A s \in Sockets : sent'[s] = sent[s]]_vars

\* C10: after the cleanup has run no socket of the instance is Connecting or
\* Open.
C10_NoLiveSocketAfterTeardown ==
    isManuallyClosed => Live(readyState) = {}

\* C11: running the cleanup a second time changes nothing the first run set
\* (the flag stays set, close() on the already closed socket and the second
\* removeEventListener calls have no effect), both handlers are registered
\* while the instance is alive, and none is registered after teardown.
C11_IdempotentLeakFreeTeardown ==
    /\ CleanupReadyState(CleanupReadyState(readyState, socket), socket)
         = CleanupReadyState(readyState, socket)
    /\ CleanupListeners(CleanupListeners(listeners)) = CleanupListeners(listeners)
    /\ isManuallyClosed => listeners = {}
    /\ ~isManuallyClosed => listeners = {"online", "offline"}

\* a teardown that had a live session to close has run
C11_Witness ==
    /\ isManuallyClosed
    /\ listeners = {}
    /\ \E s \in Sockets : closedBy[s] = "cleanup" /\ readyState[s] = "CLOSING"

\* C12 (under SpecOffline): an instance constructed while offline has made no
\* attempt, reports disconnected and has scheduled no timer for as long as no
\* online event has arrived.
C12_OfflineConstructionDefers ==
    onlineEvents = 0 =>
        /\ ~onLine
        /\ readyState = <<>>
        /\ socket = 0
        /\ ~isConnected
        /\ ws = 0
        /\ timers = {}
        /\ lastWait = 0

\* the instance constructed offline is waiting, handlers registered
C12_Witness ==
    /\ onlineEvents = 0
    /\ ~onLine
    /\ readyState = <<>>
    /\ listeners = {"online", "offline"}

\* a session of the instance is in flight: Connecting, Open, or closing with
\* its close event still to come
InFlight == \E s \in Sockets : readyState[s] # "CLOSED"

\* C13 (under FairSpec, pending timers eventually fire): while the browser is
\* online and the cleanup has not run, the instance always has a session in
\* flight or a retry timer pending, and every pending retry timer is followed
\* by a new attempt unless the browser goes offline or the cleanup runs first.
\* (The model constructs at most MaxSockets sockets, so the attempt is asked
\* for only below that bound.)
C13_RetriesContinue ==
    /\ []((onLine /\ ~isManuallyClosed) => (InFlight \/ timers # {}))
    /\ \A n \in 0..(MaxSockets - 1) :
         (timers # {} /\ onLine /\ ~isManuallyClosed /\ Len(readyState) = n)
             ~> (Len(readyState) > n \/ ~onLine \/ isManuallyClosed)

\* a retry followed a close and the next close has again scheduled a retry
C13_Witness ==
    /\ onLine
    /\ ~isManuallyClosed
    /\ onlineEvents = 0
    /\ Len(readyState) = 3
    /\ ~InFlight
    /\ timers # {}

\* C14 (under SpecOnline): an instance constructed while online has made its
\* first attempt in the construction step itself: socket 1 exists in every
\* state from the initial one on, and no setTimeout call precedes it (none
\* has been made while socket 1 is the only socket and has not closed).
C14_ImmediateFirstAttempt ==
    /\ Len(readyState) >= 1
    /\ socket >= 1
    /\ (Len(readyState) = 1 /\ readyState[1] # "CLOSED") => (timers = {} /\ lastWait = 0)

\* the instance constructed online, its first attempt in progress
C14_Witness ==
    /\ onLine
    /\ onlineEvents = 0
    /\ readyState = <<"CONNECTING">>
    /\ socket = 1
    /\ timers = {}
    /\ lastWait = 0

\* this step runs a pending retry timer's callback
FiresTimer == \E t \in timers : \A u \in timers' : u.from # t.from

\* this step delivers the close event of socket s
Closes(s) == readyState[s] # "CLOSED" /\ readyState'[s] = "CLOSED"

\* C15: a retry timer that fires while the browser is offline makes no
\* attempt and leaves the retry delay as it was.
C15_OfflineFiringKeepsDelay ==
    [][(FiresTimer /\ ~onLine) => (~Attempts /\ retryDelay' = retryDelay)]_vars

\* C16: the ending of one session (its error and close events) schedules
\* exactly one retry timer before teardown: the step adds one timer, named by
\* that session; a closed session never ends again; nothing but a session
\* ending schedules a retry; no session has two timers pending.
C16_OneRetryPerSessionEnd ==
    [][/\ \A s \in Sockets :
            (Closes(s) /\ ~isManuallyClosed) =>
                /\ Cardinality(timers') = Cardinality(timers) + 1
                /\ \A t \in timers' \ timers : t.from = s
       /\ \A s \in Sockets : readyState[s] = "CLOSED" => readyState'[s] = "CLOSED"
       /\ SchedulesRetry => \E s \in Sockets : Closes(s)
       /\ \A s \in Sockets : Cardinality({t \in timers' : t.from = s}) <= 1]_vars

\* a session ended with an error that made its handler close the newer
\* session, and one retry timer is pending for the ended session
C16_Witness ==
    \E s \in Sockets :
        /\ readyState[s] = "CLOSED"
        /\ Cardinality({t \in timers : t.from = s}) = 1
        /\ \E u \in Sockets : closedBy[u] = "error"

\* C17: the retry delay is always one of 1000, 2000, 4000, 8000, 16000,
\* 30000, and a step leaves it alone, moves it to the next base of that
\* sequence (30000 stays 30000) or resets it to 1000; no jitter enters it.
C17_DelayStaysOnSequence ==
    [][/\ \E i \in 1..Len(BackoffSequence) : retryDelay = BackoffSequence[i]
       /\ \E i \in 1..Len(BackoffSequence) : retryDelay' = BackoffSequence[i]
       /\ retryDelay' \in {retryDelay, BaseAfter(retryDelay), initialDelay}]_vars

\* the delay has reached the cap
C17_Witness ==
    retryDelay = maxDelay

\* this step delivers the open event of socket s
Opens(s) == readyState[s] = "CONNECTING" /\ readyState'[s] = "OPEN"

\* C18: whenever isConnected is true, ws is non-null and refers to a socket
\* that is Open (its close neither requested nor delivered).
C18_ConnectedMeansOpenHandle ==
    isConnected => (ws # 0 /\ readyState[ws] = "OPEN")

\* C19: the callbacks of a socket act on that socket only: its open event
\* publishes it and sends on it alone, and its error / close events change
\* the readyState of no other socket.
C19_CallbacksActOnOwnSocket ==
    [][\A s \in Sockets :
          /\ Opens(s) =>
                /\ ws' = s
                /\ \A u \in Sockets \ {s} : sent'[u] = sent[u]
                /\ sent'[s] = Append(sent[s], Entered)
          /\ Closes(s) => \A u \in Sockets \ {s} : readyState'[u] = readyState[u]]_vars

\* C20: at most one retry timer is pending, and none is pending while a
\* session is Connecting or Open.
C20_SingleTimerOnlyWhileDisconnected ==
    /\ Cardinality(timers) <= 1
    /\ Live(readyState) # {} => timers = {}

====
